---- MODULE Spec2Model ----
(***************************************************************************)
(* Model of the task-graph scheduler's message handlers                     *)
(* (src/scheduler/handlers.js).  One task-graph with three tasks is held    *)
(* in an entity store with optimistic concurrency; each handler slot runs   *)
(* one invocation of Handlers.prototype.completed / failed, split at its    *)
(* I/O suspension points (entity load, entity modify, queue RPC, publish).  *)
(***************************************************************************)
EXTENDS Integers, FiniteSets, Sequences, TLC

\* ---------------------------------------------------------------- bounds
MaxDeliveries == 3      \* broker deliveries of new or duplicated messages
MaxFailures   == 1      \* external calls (rerunTask, publish) that fail
MaxReruns     == 1      \* largest rerunsLeft a task is submitted with

\* ------------------------------------------------------- the graph under test
Handlers == {"h1", "h2"}            \* concurrently running handler invocations
Tasks    == {"A", "X", "Y"}         \* A -> X (X depends on A); Y is independent
NoHandler == "none"

\* task.dependents, immutable after submission
Dependents == [t \in Tasks |-> IF t = "A" THEN {"X"} ELSE {}]

\* leaf tasks: the initial requiresLeft of the graph
Leaves == {t \in Tasks : Dependents[t] = {}}

\* messages of the two bound exchanges (taskCompleted, taskFailed)
Messages ==
  [exchange : {"completed"}, taskId : Tasks, success : BOOLEAN]
    \cup [exchange : {"failed"}, taskId : Tasks, success : {FALSE}]

NoMessage == [exchange |-> "none", taskId |-> "none", success |-> FALSE]

Calls == {"rerunTask", "taskGraphBlocked", "taskGraphFinished"}

\* ------------------------------------------------------------ entity values
NoResolution == [present |-> FALSE, completed |-> FALSE, success |-> FALSE,
                 resultUrl |-> "undefined"]

NoTask  == [rerunsLeft |-> 0, resolution |-> NoResolution, etag |-> -1]
NoGraph == [state |-> "none", requiresLeft |-> {}, etag |-> -1]

\* message.payload.resultUrl / logsUrl: present on task-completed only
ResultUrl(m) ==
  IF m.exchange = "completed" THEN "url" ELSE "undefined"

VARIABLES
  taskStore,             \* Task entities: taskId -> [rerunsLeft, resolution, etag]
  graphStore,            \* the TaskGraph entity: [state, requiresLeft, etag]
  message,               \* per handler: the message being handled
  pc,                    \* per handler: position in the promise chain
  status,                \* per handler: state of the promise returned to the listener
  task,                  \* per handler: the loaded Task entity object, until its
                         \* modify commits (only immutable keys are read later)
  taskGraph,             \* per handler: the loaded TaskGraph entity object
  taskGraphFinishedNow,  \* per handler: closure variable of checkTaskGraphFinished
  wasRunning,            \* per handler: closure variable of blockTaskGraph
  has_rerun_available,   \* per handler: closure variable of rerunTaskOrBlock
  retried,               \* per handler: its graph modify hit a conflict and replayed
  published,             \* events accepted by the publisher, per kind
  blockedTaskIds,        \* taskId payloads of the published taskGraphBlocked events
  failedCalls,           \* external calls that failed, per kind
  rerunRequests,         \* rerunTask requests accepted by the queue, per task
  scheduleCalls,         \* calls of helpers.scheduleDependentTasks, per task
  assertionFailed,       \* a post-commit assert() of a handler threw
  deliveries,            \* number of messages delivered so far
  lastDone,              \* handler whose chain completed most recently
  snap,                  \* entity state and events when a replay was delivered
  rerunsSubmitted,       \* the rerunsLeft the tasks were submitted with
  sequence               \* the task whose soft failures, handled one after another,
                         \* are all that was delivered; "none" before, "mixed" else

vars == <<taskStore, graphStore, message, pc, status, task, taskGraph,
          taskGraphFinishedNow, wasRunning, has_rerun_available, retried,
          published, failedCalls, rerunRequests, scheduleCalls, assertionFailed,
          deliveries, lastDone, snap, blockedTaskIds,
          rerunsSubmitted, sequence>>

\* ------------------------------------------------------------------ helpers
RECURSIVE SumOver(_, _)
SumOver(f, S) ==
  IF S = {} THEN 0
  ELSE LET x == CHOOSE y \in S : TRUE IN f[x] + SumOver(f, S \ {x})

Failures   == SumOver(failedCalls, Calls)

\* the properties of an entity, without the store's etag
TaskFields(e)  == [rerunsLeft |-> e.rerunsLeft, resolution |-> e.resolution]
GraphFields(e) == [state |-> e.state, requiresLeft |-> e.requiresLeft]

NoSnap == [handler |-> NoHandler,
           tasks |-> [t \in Tasks |-> TaskFields(NoTask)],
           graph |-> GraphFields(NoGraph),
           published |-> [c \in Calls \ {"rerunTask"} |-> 0]]

\* no chain is running and no rejected message awaits redelivery
Quiescent ==
  \A h \in Handlers : pc[h] \in {"idle", "done"} /\ status[h] # "rejected"

\* ----------------------------------------------------------------- mutators
\* the modifier passed to task.modify in completed(), success branch
CompletedMutator(this, m) ==
  [this EXCEPT !.resolution = [present |-> TRUE, completed |-> TRUE,
                               success |-> TRUE, resultUrl |-> ResultUrl(m)]]

\* variant: the resolution of the soft-failure branch is written
FailedMutator_Completed(this) ==
  [this EXCEPT !.resolution = [present |-> TRUE, completed |-> TRUE,
                               success |-> FALSE, resultUrl |-> "undefined"]]

\* the modifier passed to task.modify in failed()
FailedMutator(this) ==
  [this EXCEPT !.resolution = [present |-> TRUE, completed |-> FALSE,
                               success |-> FALSE, resultUrl |-> "undefined"]]

\* variant: the last rerun is never granted
RerunMutator_OffByOne(this, m) ==
  LET available == this.rerunsLeft > 1 IN
  [this |-> IF available
            THEN [this EXCEPT !.rerunsLeft = @ - 1]
            ELSE [this EXCEPT !.resolution =
                    [present |-> TRUE, completed |-> TRUE, success |-> FALSE,
                     resultUrl |-> ResultUrl(m)]],
   has_rerun_available |-> available]

\* variant: a rerun is granted when rerunsLeft is already 0
RerunMutator_NonNegative(this, m) ==
  LET available == this.rerunsLeft >= 0 IN
  [this |-> IF available
            THEN [this EXCEPT !.rerunsLeft = @ - 1]
            ELSE [this EXCEPT !.resolution =
                    [present |-> TRUE, completed |-> TRUE, success |-> FALSE,
                     resultUrl |-> ResultUrl(m)]],
   has_rerun_available |-> available]

\* variant: a granted rerun is not taken off rerunsLeft
RerunMutator_NoDecrement(this, m) ==
  LET available == this.rerunsLeft > 0 IN
  [this |-> IF available
            THEN this
            ELSE [this EXCEPT !.resolution =
                    [present |-> TRUE, completed |-> TRUE, success |-> FALSE,
                     resultUrl |-> ResultUrl(m)]],
   has_rerun_available |-> available]

\* the modifier passed to task.modify in rerunTaskOrBlock()
RerunMutator(this, m) ==
  LET available == this.rerunsLeft > 0 IN
  [this |-> IF available
            THEN [this EXCEPT !.rerunsLeft = @ - 1]
            ELSE [this EXCEPT !.resolution =
                    [present |-> TRUE, completed |-> TRUE, success |-> FALSE,
                     resultUrl |-> ResultUrl(m)]],
   has_rerun_available |-> available]

\* variant: the early return for a task that is not in requiresLeft is missing
CheckFinishedMutator_NoReturn(this, successfulTaskId) ==
  LET left == this.requiresLeft \ {successfulTaskId}
      now  == (left = {})
  IN  [this |-> [this EXCEPT !.requiresLeft = left,
                             !.state = IF now THEN "finished" ELSE @],
       taskGraphFinishedNow |-> now]

\* variant: the length test is made before the task is removed
CheckFinishedMutator_TestFirst(this, successfulTaskId) ==
  IF successfulTaskId \notin this.requiresLeft
  THEN [this |-> this, taskGraphFinishedNow |-> FALSE]
  ELSE LET left == this.requiresLeft \ {successfulTaskId}
           now  == (this.requiresLeft = {})
       IN  [this |-> [this EXCEPT !.requiresLeft = left,
                                  !.state = IF now THEN "finished" ELSE @],
            taskGraphFinishedNow |-> now]

\* variant: some element is removed instead of the successful task
CheckFinishedMutator_Pop(this, successfulTaskId) ==
  IF successfulTaskId \notin this.requiresLeft
  THEN [this |-> this, taskGraphFinishedNow |-> FALSE]
  ELSE LET left == this.requiresLeft \
                     {CHOOSE x \in this.requiresLeft : x # successfulTaskId
                                                       \/ this.requiresLeft = {x}}
           now  == (left = {})
       IN  [this |-> [this EXCEPT !.requiresLeft = left,
                                  !.state = IF now THEN "finished" ELSE @],
            taskGraphFinishedNow |-> now]

\* variant: the flag is set but the state is not declared finished
CheckFinishedMutator_NoState(this, successfulTaskId) ==
  IF successfulTaskId \notin this.requiresLeft
  THEN [this |-> this, taskGraphFinishedNow |-> FALSE]
  ELSE LET left == this.requiresLeft \ {successfulTaskId}
           now  == (left = {})
       IN  [this |-> [this EXCEPT !.requiresLeft = left],
            taskGraphFinishedNow |-> now]

\* the modifier passed to taskGraph.modify in checkTaskGraphFinished()
CheckFinishedMutator(this, successfulTaskId) ==
  IF successfulTaskId \notin this.requiresLeft
  THEN [this |-> this, taskGraphFinishedNow |-> FALSE]
  ELSE LET left == this.requiresLeft \ {successfulTaskId}
           now  == (left = {})
       IN  [this |-> [this EXCEPT !.requiresLeft = left,
                                  !.state = IF now THEN "finished" ELSE @],
            taskGraphFinishedNow |-> now]

\* variant: the graph is declared blocked whatever its state
BlockMutator_Unconditional(this) ==
  [this |-> [this EXCEPT !.state = "blocked"], wasRunning |-> TRUE]

\* the modifier passed to taskGraph.modify in blockTaskGraph()
BlockMutator(this) ==
  LET running == (this.state = "running") IN
  [this |-> IF running THEN [this EXCEPT !.state = "blocked"] ELSE this,
   wasRunning |-> running]

\* --------------------------------------------------------------------- Init
Init ==
  /\ rerunsSubmitted \in 0..MaxReruns
  /\ taskStore = [t \in Tasks |-> [rerunsLeft |-> rerunsSubmitted,
                                   resolution |-> NoResolution, etag |-> 0]]
  /\ graphStore = [state |-> "running", requiresLeft |-> Leaves, etag |-> 0]
  /\ message = [h \in Handlers |-> NoMessage]
  /\ pc = [h \in Handlers |-> "idle"]
  /\ status = [h \in Handlers |-> "none"]
  /\ task = [h \in Handlers |-> NoTask]
  /\ taskGraph = [h \in Handlers |-> NoGraph]
  /\ taskGraphFinishedNow = [h \in Handlers |-> FALSE]
  /\ wasRunning = [h \in Handlers |-> FALSE]
  /\ has_rerun_available = [h \in Handlers |-> TRUE]
  /\ retried = [h \in Handlers |-> FALSE]
  /\ published = [c \in Calls \ {"rerunTask"} |-> 0]
  /\ failedCalls = [c \in Calls |-> 0]
  /\ rerunRequests = [t \in Tasks |-> 0]
  /\ scheduleCalls = [t \in Tasks |-> 0]
  /\ assertionFailed = FALSE
  /\ deliveries = 0
  /\ lastDone = NoHandler
  /\ snap = NoSnap
  /\ blockedTaskIds = {}
  /\ sequence = "none"

\* ---------------------------------------------------------- listener / broker
\* variant: message.payload.success is not tested in completed()
Route_SuccessIgnored(m) ==
  IF m.exchange = "failed" THEN "failed_modify" ELSE "rerun_modify"

\* the listener's dispatch on the exchange and completed()'s test of
\* message.payload.success: the first modify of the chain
Route(m) ==
  IF m.exchange = "failed" THEN "failed_modify"
  ELSE IF m.success THEN "completed_modify"
  ELSE "rerun_modify"

\* variant: the graph-finish check is made for every successful task
AfterResolution_Always(t) == "finished_load"

\* completed(), after the resolution is saved: a task with dependents goes to
\* scheduleDependentTasks, a leaf to checkTaskGraphFinished
AfterResolution(t) ==
  IF Dependents[t] # {} THEN "schedule_dependents" ELSE "finished_load"

\* completed(message) / failed(message) starts: fresh closure variables, and
\* this.Task.load(taskGraphId, taskId) resolves; the chain branches on the
\* exchange and on message.payload.success
Start(h, m) ==
  /\ taskGraphFinishedNow' = [taskGraphFinishedNow EXCEPT ![h] = FALSE]
  /\ wasRunning' = [wasRunning EXCEPT ![h] = FALSE]
  /\ has_rerun_available' = [has_rerun_available EXCEPT ![h] = TRUE]
  /\ retried' = [retried EXCEPT ![h] = FALSE]
  /\ taskGraph' = [taskGraph EXCEPT ![h] = NoGraph]
  /\ task' = [task EXCEPT ![h] = taskStore[m.taskId]]
  /\ status' = [status EXCEPT ![h] = "pending"]
  /\ pc' = [pc EXCEPT ![h] = Route(m)]

\* the chain of handler h has run to its end
End(h, st) ==
  /\ pc' = [pc EXCEPT ![h] = "done"]
  /\ status' = [status EXCEPT ![h] = st]
  /\ task' = [task EXCEPT ![h] = NoTask]
  /\ taskGraph' = [taskGraph EXCEPT ![h] = NoGraph]
  /\ lastDone' = h

\* listener.on('message'): a message arrives and completed()/failed() starts
Deliver(h, m) ==
  /\ pc[h] \in {"idle", "done"}
  /\ status[h] # "rejected"
  /\ deliveries < MaxDeliveries
  /\ LET replay == /\ Quiescent
                   /\ lastDone # NoHandler
                   /\ message[lastDone] = m
     IN snap' = IF replay
                THEN [handler |-> h,
                      tasks |-> [t \in Tasks |-> TaskFields(taskStore[t])],
                      graph |-> GraphFields(graphStore),
                      published |-> published]
                ELSE NoSnap
  /\ deliveries' = deliveries + 1
  /\ message' = [message EXCEPT ![h] = m]
  /\ Start(h, m)
  /\ UNCHANGED <<taskStore, graphStore, published, failedCalls, rerunRequests,
                 scheduleCalls, assertionFailed, lastDone>>
  /\ sequence' = IF /\ Quiescent
                     /\ m.exchange = "completed" /\ ~m.success
                     /\ sequence \in {"none", m.taskId}
                  THEN m.taskId ELSE "mixed"
  /\ UNCHANGED <<blockedTaskIds, rerunsSubmitted>>

\* the handler's promise rejected: the message is not acked and comes again
Redeliver(h) ==
  /\ pc[h] = "done"
  /\ status[h] = "rejected"
  /\ snap' = NoSnap
  /\ Start(h, message[h])
  /\ UNCHANGED <<taskStore, graphStore, message, published, failedCalls,
                 rerunRequests, scheduleCalls, assertionFailed, deliveries,
                 lastDone>>
  /\ UNCHANGED <<blockedTaskIds, rerunsSubmitted, sequence>>

\* ------------------------------------------------- completed() and failed()
\* completed(), success: one attempt of task.modify; on commit the chain goes
\* on to scheduleDependentTasks or to checkTaskGraphFinished
CompletedModify(h) ==
  LET t   == message[h].taskId
      new == CompletedMutator(task[h], message[h])
  IN
  /\ pc[h] = "completed_modify"
  /\ IF task[h].etag = taskStore[t].etag
     THEN /\ taskStore' = [taskStore EXCEPT ![t] = [new EXCEPT !.etag = @ + 1]]
          /\ task' = [task EXCEPT ![h] = NoTask]
          /\ pc' = [pc EXCEPT ![h] = AfterResolution(t)]
     ELSE /\ task' = [task EXCEPT ![h] = taskStore[t]]
          /\ UNCHANGED <<taskStore, pc>>
  /\ UNCHANGED <<graphStore, message, status, taskGraph, taskGraphFinishedNow,
                 wasRunning, has_rerun_available, retried, published,
                 failedCalls, rerunRequests, scheduleCalls, assertionFailed,
                 deliveries, lastDone, snap>>
  /\ UNCHANGED <<blockedTaskIds, rerunsSubmitted, sequence>>

\* completed(): helpers.scheduleDependentTasks(task, queue, Task) is called and
\* its promise is returned
ScheduleDependentTasks(h) ==
  /\ pc[h] = "schedule_dependents"
  /\ scheduleCalls' = [scheduleCalls EXCEPT ![message[h].taskId] = @ + 1]
  /\ End(h, "resolved")
  /\ UNCHANGED <<taskStore, graphStore, message, taskGraphFinishedNow,
                 wasRunning, has_rerun_available, retried, published,
                 failedCalls, rerunRequests, assertionFailed, deliveries, snap>>
  /\ UNCHANGED <<blockedTaskIds, rerunsSubmitted, sequence>>

\* failed(): one attempt of task.modify; on commit blockTaskGraph is called,
\* which returns undefined, so the promise of failed() resolves here
FailedModify(h) ==
  LET t   == message[h].taskId
      new == FailedMutator(task[h])
  IN
  /\ pc[h] = "failed_modify"
  /\ IF task[h].etag = taskStore[t].etag
     THEN /\ taskStore' = [taskStore EXCEPT ![t] = [new EXCEPT !.etag = @ + 1]]
          /\ task' = [task EXCEPT ![h] = NoTask]
          /\ pc' = [pc EXCEPT ![h] = "blocked_load"]
          /\ status' = [status EXCEPT ![h] = "resolved"]
     ELSE /\ task' = [task EXCEPT ![h] = taskStore[t]]
          /\ UNCHANGED <<taskStore, pc, status>>
  /\ UNCHANGED <<graphStore, message, taskGraph, taskGraphFinishedNow,
                 wasRunning, has_rerun_available, retried, published,
                 failedCalls, rerunRequests, scheduleCalls, assertionFailed,
                 deliveries, lastDone, snap>>
  /\ UNCHANGED <<blockedTaskIds, rerunsSubmitted, sequence>>

\* ------------------------------------------------------- rerunTaskOrBlock()
\* one attempt of task.modify; on commit either queue.rerunTask is called or
\* blockTaskGraph, whose undefined return value resolves the handler
RerunModify(h) ==
  LET t == message[h].taskId
      r == RerunMutator(task[h], message[h])
  IN
  /\ pc[h] = "rerun_modify"
  /\ has_rerun_available' =
       [has_rerun_available EXCEPT ![h] = r.has_rerun_available]
  /\ IF task[h].etag = taskStore[t].etag
     THEN /\ taskStore' = [taskStore EXCEPT ![t] = [r.this EXCEPT !.etag = @ + 1]]
          /\ task' = [task EXCEPT ![h] = NoTask]
          /\ IF r.has_rerun_available
             THEN /\ pc' = [pc EXCEPT ![h] = "rerun_call"]
                  /\ UNCHANGED status
             ELSE /\ pc' = [pc EXCEPT ![h] = "blocked_load"]
                  /\ status' = [status EXCEPT ![h] = "resolved"]
     ELSE /\ task' = [task EXCEPT ![h] = taskStore[t]]
          /\ UNCHANGED <<taskStore, pc, status>>
  /\ UNCHANGED <<graphStore, message, taskGraph, taskGraphFinishedNow,
                 wasRunning, retried, published, failedCalls, rerunRequests,
                 scheduleCalls, assertionFailed, deliveries, lastDone, snap>>
  /\ UNCHANGED <<blockedTaskIds, rerunsSubmitted, sequence>>

\* queue.rerunTask(task.taskId): accepted by the queue, or it fails and the
\* error is rethrown
RerunTask(h) ==
  /\ pc[h] = "rerun_call"
  /\ \/ /\ rerunRequests' = [rerunRequests EXCEPT ![message[h].taskId] = @ + 1]
        /\ End(h, "resolved")
        /\ UNCHANGED failedCalls
     \/ /\ Failures < MaxFailures
        /\ failedCalls' = [failedCalls EXCEPT !["rerunTask"] = @ + 1]
        /\ End(h, "rejected")
        /\ UNCHANGED rerunRequests
  /\ UNCHANGED <<taskStore, graphStore, message, taskGraphFinishedNow,
                 wasRunning, has_rerun_available, retried, published,
                 scheduleCalls, assertionFailed, deliveries, snap>>
  /\ UNCHANGED <<blockedTaskIds, rerunsSubmitted, sequence>>

\* ------------------------------------------------- checkTaskGraphFinished()
\* that.TaskGraph.load(taskGraphId) resolves
FinishedLoad(h) ==
  /\ pc[h] = "finished_load"
  /\ taskGraph' = [taskGraph EXCEPT ![h] = graphStore]
  /\ pc' = [pc EXCEPT ![h] = "finished_modify"]
  /\ UNCHANGED <<taskStore, graphStore, message, status, task,
                 taskGraphFinishedNow, wasRunning, has_rerun_available,
                 retried, published, failedCalls, rerunRequests, scheduleCalls,
                 assertionFailed, deliveries, lastDone, snap>>
  /\ UNCHANGED <<blockedTaskIds, rerunsSubmitted, sequence>>

\* one attempt of taskGraph.modify: the modifier runs on the handler's copy and
\* the write is conditional on the etag; on conflict the entity is reloaded and
\* the modifier runs again.  After the commit the assert is evaluated.
FinishedModify(h) ==
  LET r == CheckFinishedMutator(taskGraph[h], message[h].taskId)
      committed == [r.this EXCEPT !.etag = @ + 1]
  IN
  /\ pc[h] = "finished_modify"
  /\ taskGraphFinishedNow' =
       [taskGraphFinishedNow EXCEPT ![h] = r.taskGraphFinishedNow]
  /\ IF taskGraph[h].etag = graphStore.etag
     THEN /\ graphStore' = committed
          /\ UNCHANGED retried
          /\ IF r.taskGraphFinishedNow
             THEN IF committed.state = "finished"
                  THEN /\ pc' = [pc EXCEPT ![h] = "finished_publish"]
                       /\ taskGraph' = [taskGraph EXCEPT ![h] = committed]
                       /\ UNCHANGED <<status, task, lastDone, assertionFailed>>
                  ELSE /\ assertionFailed' = TRUE
                       /\ End(h, "rejected")
             ELSE /\ End(h, "resolved")
                  /\ UNCHANGED assertionFailed
     ELSE /\ taskGraph' = [taskGraph EXCEPT ![h] = graphStore]
          /\ retried' = [retried EXCEPT ![h] = TRUE]
          /\ UNCHANGED <<graphStore, pc, status, task, lastDone,
                         assertionFailed>>
  /\ UNCHANGED <<taskStore, message, wasRunning, has_rerun_available,
                 published, failedCalls, rerunRequests, scheduleCalls,
                 deliveries, snap>>
  /\ UNCHANGED <<blockedTaskIds, rerunsSubmitted, sequence>>

\* that.publisher.taskGraphFinished(...): accepted by the broker, or it fails
\* and the rejection is returned to the listener
FinishedPublish(h) ==
  /\ pc[h] = "finished_publish"
  /\ \/ /\ published' = [published EXCEPT !["taskGraphFinished"] = @ + 1]
        /\ End(h, "resolved")
        /\ UNCHANGED failedCalls
     \/ /\ Failures < MaxFailures
        /\ failedCalls' = [failedCalls EXCEPT !["taskGraphFinished"] = @ + 1]
        /\ End(h, "rejected")
        /\ UNCHANGED published
  /\ UNCHANGED <<taskStore, graphStore, message, taskGraphFinishedNow,
                 wasRunning, has_rerun_available, retried, rerunRequests,
                 scheduleCalls, assertionFailed, deliveries, snap>>
  /\ UNCHANGED <<blockedTaskIds, rerunsSubmitted, sequence>>

\* --------------------------------------------------------- blockTaskGraph()
\* this.TaskGraph.load(taskGraphId) resolves; the chain is not returned to the
\* caller, so status[h] is already "resolved" on this path
BlockedLoad(h) ==
  /\ pc[h] = "blocked_load"
  /\ taskGraph' = [taskGraph EXCEPT ![h] = graphStore]
  /\ pc' = [pc EXCEPT ![h] = "blocked_modify"]
  /\ UNCHANGED <<taskStore, graphStore, message, status, task,
                 taskGraphFinishedNow, wasRunning, has_rerun_available,
                 retried, published, failedCalls, rerunRequests, scheduleCalls,
                 assertionFailed, deliveries, lastDone, snap>>
  /\ UNCHANGED <<blockedTaskIds, rerunsSubmitted, sequence>>

\* one attempt of taskGraph.modify, then the assert
BlockedModify(h) ==
  LET r == BlockMutator(taskGraph[h])
      committed == [r.this EXCEPT !.etag = @ + 1]
  IN
  /\ pc[h] = "blocked_modify"
  /\ wasRunning' = [wasRunning EXCEPT ![h] = r.wasRunning]
  /\ IF taskGraph[h].etag = graphStore.etag
     THEN /\ graphStore' = committed
          /\ UNCHANGED retried
          /\ IF r.wasRunning
             THEN IF committed.state = "blocked"
                  THEN /\ pc' = [pc EXCEPT ![h] = "blocked_publish"]
                       /\ taskGraph' = [taskGraph EXCEPT ![h] = committed]
                       /\ UNCHANGED <<status, task, lastDone, assertionFailed>>
                  ELSE /\ assertionFailed' = TRUE
                       /\ End(h, status[h])
             ELSE /\ End(h, status[h])
                  /\ UNCHANGED assertionFailed
     ELSE /\ taskGraph' = [taskGraph EXCEPT ![h] = graphStore]
          /\ retried' = [retried EXCEPT ![h] = TRUE]
          /\ UNCHANGED <<graphStore, pc, status, task, lastDone,
                         assertionFailed>>
  /\ UNCHANGED <<taskStore, message, taskGraphFinishedNow,
                 has_rerun_available, published, failedCalls, rerunRequests,
                 scheduleCalls, deliveries, snap>>
  /\ UNCHANGED <<blockedTaskIds, rerunsSubmitted, sequence>>

\* that.publisher.taskGraphBlocked(...): accepted by the broker, or it fails;
\* nobody holds the promise, so a failure is an unhandled rejection
BlockedPublish(h) ==
  /\ pc[h] = "blocked_publish"
  /\ \/ /\ published' = [published EXCEPT !["taskGraphBlocked"] = @ + 1]
        /\ blockedTaskIds' = blockedTaskIds \cup {message[h].taskId}
        /\ UNCHANGED failedCalls
     \/ /\ Failures < MaxFailures
        /\ failedCalls' = [failedCalls EXCEPT !["taskGraphBlocked"] = @ + 1]
        /\ UNCHANGED <<published, blockedTaskIds>>
  /\ End(h, status[h])
  /\ UNCHANGED <<taskStore, graphStore, message, taskGraphFinishedNow,
                 wasRunning, has_rerun_available, retried, rerunRequests,
                 scheduleCalls, assertionFailed, deliveries, snap>>
  /\ UNCHANGED <<rerunsSubmitted, sequence>>

\* ------------------------------------------------------------ specification
Next ==
  \/ \E h \in Handlers, m \in Messages : Deliver(h, m)
  \/ \E h \in Handlers : Redeliver(h)
  \/ \E h \in Handlers : CompletedModify(h)
  \/ \E h \in Handlers : ScheduleDependentTasks(h)
  \/ \E h \in Handlers : FailedModify(h)
  \/ \E h \in Handlers : RerunModify(h)
  \/ \E h \in Handlers : RerunTask(h)
  \/ \E h \in Handlers : FinishedLoad(h)
  \/ \E h \in Handlers : FinishedModify(h)
  \/ \E h \in Handlers : FinishedPublish(h)
  \/ \E h \in Handlers : BlockedLoad(h)
  \/ \E h \in Handlers : BlockedModify(h)
  \/ \E h \in Handlers : BlockedPublish(h)

Spec == Init /\ [][Next]_vars

TypeOK ==
  /\ graphStore.state \in {"running", "blocked", "finished"}
  /\ graphStore.requiresLeft \subseteq Leaves
  /\ \A t \in Tasks : taskStore[t].rerunsLeft \in 0..MaxReruns
  /\ \A h \in Handlers : status[h] \in {"none", "pending", "resolved", "rejected"}

\* =================================================================== claims
Finished == "taskGraphFinished"
Blocked  == "taskGraphBlocked"

IsSuccess(m)  == m.exchange = "completed" /\ m.success
IsSoftFail(m) == m.exchange = "completed" /\ ~m.success
IsFailed(m)   == m.exchange = "failed"

\* the chain of h went (or is going) through blockTaskGraph
OnBlockPath(h) ==
  /\ pc[h] \in {"blocked_load", "blocked_modify", "blocked_publish", "done"}
  /\ \/ IsFailed(message[h])
     \/ IsSoftFail(message[h]) /\ ~has_rerun_available[h]

\* C1: taskGraphFinished is published at most once for the graph, in every
\* interleaving of handlers, CAS replays of the checkTaskGraphFinished
\* modifier, duplicated deliveries and redeliveries.
C1_FinishedAtMostOnce ==
  published[Finished] <= 1

\* a duplicate of a successful leaf's message lost the CAS race, replayed on
\* the finished graph and ended without publishing
C1_Witness ==
  /\ published[Finished] = 1
  /\ graphStore.state = "finished"
  /\ \E h \in Handlers :
       /\ pc[h] = "done" /\ status[h] = "resolved"
       /\ IsSuccess(message[h]) /\ Dependents[message[h].taskId] = {}
       /\ retried[h] /\ ~taskGraphFinishedNow[h]

\* C2: taskGraphBlocked is published only by a blockTaskGraph invocation whose
\* committed modifier changed the graph from running to blocked; a commit
\* against a graph that is not running publishes nothing and leaves the graph
\* unchanged; so at most one taskGraphBlocked is published for the graph.
C2_BlockedOnlyOnTransition ==
  /\ [](published[Blocked] <= 1)
  /\ [][\A h \in Handlers :
          (pc[h] = "blocked_modify" /\ pc'[h] # "blocked_modify") =>
            IF graphStore.state = "running"
            THEN graphStore'.state = "blocked" /\ pc'[h] = "blocked_publish"
            ELSE /\ GraphFields(graphStore') = GraphFields(graphStore)
                 /\ pc'[h] = "done"
                 /\ published' = published]_vars
  /\ [][published'[Blocked] # published[Blocked] =>
          \E h \in Handlers :
            /\ pc[h] = "blocked_publish" /\ pc'[h] = "done"
            /\ wasRunning[h]
            /\ graphStore.state # "running"]_vars

\* two failures raced: the loser's first modifier application saw a running
\* graph, was discarded, and its replay committed against the blocked graph
C2_Witness ==
  /\ published[Blocked] = 1
  /\ graphStore.state = "blocked"
  /\ \E h \in Handlers :
       /\ pc[h] = "done" /\ OnBlockPath(h)
       /\ retried[h] /\ ~wasRunning[h]

\* C3: requiresLeft = {X, Y}; completed(X, success) and completed(Y, success)
\* are the only two messages delivered and no external call fails.  Once both
\* chains have ended, requiresLeft is empty, the graph is finished, exactly
\* one of the two handlers holds taskGraphFinishedNow = TRUE and exactly one
\* taskGraphFinished has been published.
C3_Scenario(hx, hy) ==
  /\ deliveries = 2
  /\ Failures = 0
  /\ message[hx] = [exchange |-> "completed", taskId |-> "X", success |-> TRUE]
  /\ message[hy] = [exchange |-> "completed", taskId |-> "Y", success |-> TRUE]
  /\ pc[hx] = "done" /\ pc[hy] = "done"

C3_ConcurrentLastLeaves ==
  \A hx, hy \in Handlers :
    C3_Scenario(hx, hy) =>
      /\ graphStore.requiresLeft = {}
      /\ graphStore.state = "finished"
      /\ taskGraphFinishedNow[hx] # taskGraphFinishedNow[hy]
      /\ published[Finished] = 1
      /\ status[hx] = "resolved" /\ status[hy] = "resolved"

\* both ended and one of the two modifiers was replayed after a conflict
C3_Witness ==
  \E hx, hy \in Handlers :
    /\ C3_Scenario(hx, hy)
    /\ retried[hx] \/ retried[hy]

\* C4: blocked and finished are terminal graph states (original claim).
C4_TerminalStates ==
  [][graphStore.state \in {"blocked", "finished"} =>
       graphStore'.state = graphStore.state]_vars

\* C5: in every committed state of the graph, state = 'finished' exactly when
\* requiresLeft is empty.
C5_FinishedIffEmpty ==
  (graphStore.state = "finished") <=> (graphStore.requiresLeft = {})

\* a failure was handled to the end after the graph had finished
C5_Witness ==
  /\ graphStore.state = "finished"
  /\ graphStore.requiresLeft = {}
  /\ \E h \in Handlers :
       pc[h] = "done" /\ OnBlockPath(h)

\* C6: once a task's resolution is set, no later handled message unsets it or
\* changes any of its fields (original claim).
C6_ResolutionImmutable ==
  [][\A t \in Tasks :
       taskStore[t].resolution.present =>
         taskStore'[t].resolution = taskStore[t].resolution]_vars

\* C7: when the promise of completed() or failed() has resolved on a path
\* that blocks the graph, the blockTaskGraph chain (the running-to-blocked
\* commit and the taskGraphBlocked publication) has already run to its end
\* (original claim).
C7_BlockBeforeResolve ==
  \A h \in Handlers :
    (status[h] = "resolved" /\ OnBlockPath(h)) => pc[h] = "done"

\* C8: rerunsLeft is decremented only for a task that has no resolution
\* (original claim).
C8_DecrementOnlyUnresolved ==
  [][\A t \in Tasks :
       taskStore'[t].rerunsLeft < taskStore[t].rerunsLeft =>
         ~taskStore[t].resolution.present]_vars

\* C9: a message replayed on the entity state left by its handling changes no
\* Task or TaskGraph property and publishes no event (original claim).
C9_ReplayIdempotent ==
  (snap.handler # NoHandler /\ pc[snap.handler] = "done") =>
    /\ \A t \in Tasks : TaskFields(taskStore[t]) = snap.tasks[t]
    /\ GraphFields(graphStore) = snap.graph
    /\ published = snap.published

\* C10 (original claim): a graph committed as finished gets its
\* taskGraphFinished event; once every chain has ended and every rejected
\* message has been redelivered and handled, the event has been published.
C10_FinishedNeverLost ==
  (Quiescent /\ graphStore.state = "finished") => published[Finished] >= 1

\* C10 (amended): for a graph committed as finished exactly one publication
\* of taskGraphFinished is attempted, by the handler whose committed modifier
\* emptied requiresLeft; a replay of the redelivered message attempts none,
\* so the event is published once or, if that one attempt failed, never.
C10_OneAttempt ==
  published[Finished] + failedCalls[Finished] =
    IF /\ graphStore.state = "finished"
       /\ \A h \in Handlers : pc[h] # "finished_publish"
    THEN 1 ELSE 0

\* the publish failed, the message was redelivered and its replay resolved
\* without publishing
C10_Witness ==
  /\ Quiescent
  /\ graphStore.state = "finished"
  /\ failedCalls[Finished] = 1
  /\ published[Finished] = 0
  /\ \E h \in Handlers :
       /\ pc[h] = "done" /\ status[h] = "resolved"
       /\ IsSuccess(message[h]) /\ ~taskGraphFinishedNow[h]

\* C11: when an external call made by the chain of a handler fails (the
\* rerunTask RPC or the publication of taskGraphFinished or taskGraphBlocked),
\* the promise of completed()/failed() rejects (original claim).
C11_FailurePropagates ==
  [][\A h \in Handlers :
       (/\ pc[h] \in {"rerun_call", "finished_publish", "blocked_publish"}
        /\ pc'[h] = "done"
        /\ failedCalls' # failedCalls)
         => status'[h] = "rejected"]_vars

\* C12: handling failed(T) never requests a rerun and leaves T.rerunsLeft as
\* it is; its task modify sets T.resolution to {completed:false,
\* success:false} and goes on to blockTaskGraph; when its committed modifier
\* found the graph running, exactly one publication of taskGraphBlocked is
\* made, and the event carries taskId T.
FailedResolution ==
  [present |-> TRUE, completed |-> FALSE, success |-> FALSE,
   resultUrl |-> "undefined"]

C12_FailedNeverReruns ==
  /\ [](\A h \in Handlers :
          IsFailed(message[h]) =>
            /\ pc[h] \notin {"rerun_modify", "rerun_call"}
            /\ (pc[h] = "done" /\ wasRunning[h]) =>
                 /\ published[Blocked] + failedCalls[Blocked] = 1
                 /\ blockedTaskIds \subseteq {message[h].taskId}
                 /\ published[Blocked] = 1 =>
                      blockedTaskIds = {message[h].taskId})
  /\ [][\A h \in Handlers :
          (IsFailed(message[h]) /\ pc'[h] # pc[h] /\ message'[h] = message[h]) =>
            LET t == message[h].taskId IN
            /\ taskStore'[t].rerunsLeft = taskStore[t].rerunsLeft
            /\ rerunRequests' = rerunRequests
            /\ failedCalls'["rerunTask"] = failedCalls["rerunTask"]
            /\ pc[h] = "failed_modify" =>
                 /\ taskStore'[t].resolution = FailedResolution
                 /\ pc'[h] = "blocked_load"]_vars

\* failed(T) for a task with reruns left blocked the running graph and its
\* taskGraphBlocked was published
C12_Witness ==
  \E h \in Handlers :
    /\ IsFailed(message[h]) /\ pc[h] = "done" /\ wasRunning[h]
    /\ taskStore[message[h].taskId].rerunsLeft > 0
    /\ taskStore[message[h].taskId].resolution = FailedResolution
    /\ rerunRequests[message[h].taskId] = 0
    /\ graphStore.state = "blocked"
    /\ published[Blocked] = 1
    /\ blockedTaskIds = {message[h].taskId}

\* C13: task T was submitted with rerunsLeft = n in a running graph and the
\* only messages delivered are k soft failures completed(T, success=false),
\* handled one after another without a failing external call.  After the
\* k-th, for k <= n: rerunsLeft = n - k, k reruns were requested, T has no
\* resolution, the graph is running and no event is published; for k = n + 1:
\* rerunsLeft = 0, the resolution is {completed:true, success:false, urls},
\* still n reruns were requested, the graph is blocked and exactly one
\* taskGraphBlocked, with taskId T, is published.
SoftFailResolution ==
  [present |-> TRUE, completed |-> TRUE, success |-> FALSE, resultUrl |-> "url"]

C13_RerunsThenBlocks ==
  (sequence \in Tasks /\ Quiescent /\ Failures = 0) =>
    LET T == sequence
        n == rerunsSubmitted
        k == deliveries
    IN  /\ k <= n =>
              /\ taskStore[T].rerunsLeft = n - k
              /\ rerunRequests[T] = k
              /\ ~taskStore[T].resolution.present
              /\ graphStore.state = "running"
              /\ published[Blocked] = 0 /\ published[Finished] = 0
        /\ k = n + 1 =>
              /\ taskStore[T].rerunsLeft = 0
              /\ rerunRequests[T] = n
              /\ taskStore[T].resolution = SoftFailResolution
              /\ graphStore.state = "blocked"
              /\ published[Blocked] = 1 /\ published[Finished] = 0
              /\ blockedTaskIds = {T}

\* the budget was positive, was used up by reruns, and the next soft failure
\* blocked the graph
C13_Witness ==
  /\ sequence \in Tasks /\ Quiescent /\ Failures = 0
  /\ rerunsSubmitted >= 1
  /\ deliveries = rerunsSubmitted + 1
  /\ rerunRequests[sequence] = rerunsSubmitted
  /\ graphStore.state = "blocked"
  /\ blockedTaskIds = {sequence}

\* C14: rerunsLeft >= 0 for every task in every reachable state.
C14_RerunsLeftNonNegative ==
  \A t \in Tasks : taskStore[t].rerunsLeft >= 0

\* two soft failures of one task race for its last rerun: one has committed
\* the decrement to 0 and requests the rerun, the other still holds the copy
\* with rerunsLeft = 1 and an outdated etag, so its write will be refused
C14_Witness ==
  \E h1, h2 \in Handlers :
    /\ h1 # h2
    /\ IsSoftFail(message[h1]) /\ message[h2] = message[h1]
    /\ pc[h1] = "rerun_call" /\ has_rerun_available[h1]
    /\ pc[h2] = "rerun_modify"
    /\ task[h2].rerunsLeft = 1
    /\ task[h2].etag # taskStore[message[h2].taskId].etag
    /\ taskStore[message[h2].taskId].rerunsLeft = 0

\* C15: the chain of a completed message with success = true never goes
\* through blockTaskGraph: no step of such a handler sets the graph's state
\* to blocked or publishes taskGraphBlocked.
BlockedPcs == {"blocked_load", "blocked_modify", "blocked_publish"}

C15_SuccessNeverBlocks ==
  /\ [](\A h \in Handlers :
          IsSuccess(message[h]) =>
            pc[h] \notin BlockedPcs \cup {"rerun_modify", "rerun_call"})
  /\ [][(\/ graphStore'.state = "blocked" /\ graphStore.state # "blocked"
         \/ published'[Blocked] # published[Blocked]) =>
          \E h \in Handlers :
            /\ pc[h] \in BlockedPcs /\ pc'[h] # pc[h]
            /\ ~IsSuccess(message[h])]_vars

\* a successful leaf was handled to the end on a running graph: it was taken
\* off requiresLeft, the graph still runs and nothing says blocked
C15_Witness ==
  \E h \in Handlers :
    /\ IsSuccess(message[h]) /\ pc[h] = "done" /\ status[h] = "resolved"
    /\ message[h].taskId \in Leaves \ graphStore.requiresLeft
    /\ graphStore.state = "running"
    /\ published[Blocked] = 0

\* C16: requiresLeft stays a subset of the leaf tasks and only shrinks: every
\* step leaves it as it was, or removes exactly the task of the successful
\* leaf whose checkTaskGraphFinished modifier committed.
C16_RequiresLeftShrinks ==
  /\ [](graphStore.requiresLeft \subseteq Leaves)
  /\ [][\/ graphStore'.requiresLeft = graphStore.requiresLeft
        \/ \E h \in Handlers :
             /\ pc[h] = "finished_modify" /\ pc'[h] # pc[h]
             /\ IsSuccess(message[h])
             /\ message[h].taskId \in graphStore.requiresLeft
             /\ graphStore'.requiresLeft =
                  graphStore.requiresLeft \ {message[h].taskId}]_vars

\* X was taken off requiresLeft by a handler whose first modifier application
\* was discarded, and a later commit left requiresLeft as it was
C16_Witness ==
  /\ graphStore.requiresLeft = {"Y"}
  /\ graphStore.etag >= 2
  /\ \E h \in Handlers :
       /\ IsSuccess(message[h]) /\ message[h].taskId = "X"
       /\ pc[h] = "done" /\ retried[h]

\* C17: for a successful task with dependents every delivery ends in one call
\* of helpers.scheduleDependentTasks, and no step of its chain changes the
\* graph entity or publishes an event; only a successful task without
\* dependents reaches checkTaskGraphFinished.
C17_NonLeafSchedulesOnly ==
  /\ [](\A h \in Handlers :
          /\ pc[h] \in {"finished_load", "finished_modify", "finished_publish"}
               => IsSuccess(message[h]) /\ Dependents[message[h].taskId] = {}
          /\ pc[h] = "schedule_dependents"
               => IsSuccess(message[h]) /\ Dependents[message[h].taskId] # {})
  /\ [][\A h \in Handlers :
          (/\ IsSuccess(message[h]) /\ Dependents[message[h].taskId] # {}
           /\ pc[h] \notin {"idle", "done"} /\ pc'[h] # pc[h]) =>
            /\ graphStore' = graphStore
            /\ published' = published
            /\ pc'[h] = "done" =>
                 /\ status'[h] = "resolved"
                 /\ scheduleCalls'[message[h].taskId] =
                      scheduleCalls[message[h].taskId] + 1]_vars

\* completed(A, success) was delivered twice and nothing else: scheduling was
\* attempted twice, the graph is as submitted and no event was published
C17_Witness ==
  /\ deliveries = 2 /\ Quiescent
  /\ scheduleCalls["A"] = 2
  /\ GraphFields(graphStore) = [state |-> "running", requiresLeft |-> Leaves]
  /\ graphStore.etag = 0
  /\ published[Blocked] = 0 /\ published[Finished] = 0

\* C18: for every task the rerunTask requests issued so far (accepted by the
\* queue or failed) never exceed the rerunsLeft taken off the task since its
\* submission, and so never exceed the rerunsLeft it was submitted with.
C18_RerunsBounded ==
  /\ \A t \in Tasks :
       /\ rerunRequests[t] <= rerunsSubmitted - taskStore[t].rerunsLeft
       /\ rerunRequests[t] <= rerunsSubmitted
  /\ SumOver(rerunRequests, Tasks) + failedCalls["rerunTask"] <=
       SumOver([t \in Tasks |-> rerunsSubmitted - taskStore[t].rerunsLeft],
               Tasks)

\* duplicated soft failures of one task were handled concurrently: the whole
\* budget was requested, and the handler that found none left went on to
\* block the graph
C18_Witness ==
  \E h1, h2 \in Handlers :
    /\ h1 # h2
    /\ IsSoftFail(message[h1]) /\ message[h2] = message[h1]
    /\ rerunsSubmitted >= 1
    /\ rerunRequests[message[h1].taskId] = rerunsSubmitted
    /\ taskStore[message[h1].taskId].rerunsLeft = 0
    /\ pc[h1] = "done" /\ has_rerun_available[h1]
    /\ pc[h2] = "done" /\ ~has_rerun_available[h2]

\* C19: the two post-commit assertions hold: a handler about to publish
\* taskGraphFinished holds a graph entity whose state is finished, a handler
\* about to publish taskGraphBlocked one whose state is blocked.
C19_AssertionsHold ==
  /\ ~assertionFailed
  /\ \A h \in Handlers :
       /\ pc[h] = "finished_publish" =>
            taskGraphFinishedNow[h] /\ taskGraph[h].state = "finished"
       /\ pc[h] = "blocked_publish" =>
            wasRunning[h] /\ taskGraph[h].state = "blocked"

\* a blocking handler and a finishing handler both passed their assert, the
\* finishing one after a replay of its modifier
C19_Witness ==
  \E h1, h2 \in Handlers :
    /\ pc[h1] = "finished_publish" /\ retried[h1]
    /\ pc[h2] = "blocked_publish"

\* C20: once taskGraphFinished has been published for the graph, no
\* taskGraphBlocked is published for it (original claim).
C20_NoBlockedAfterFinished ==
  [][published[Finished] >= 1 =>
       published'[Blocked] = published[Blocked]]_vars

====
